---- MODULE Spec2Model ----
(***************************************************************************)
(* The FastAPI user service of "Python Db_FastAPI": main.py (the app, the  *)
(* get_db dependency and the four CRUD routes) and database.py (the        *)
(* engine, the session factory SessionLocal and create_tables).            *)
(*                                                                         *)
(* crud.py, schemas.py and models.py are imported by main.py but are not   *)
(* part of the sources at hand; the crud_* operators and the store they    *)
(* act on are written from the specification (sections 3 and 4.2).         *)
(*                                                                         *)
(* Each worker handles one request at a time: FastAPI resolves             *)
(* Depends(get_db) (the generator runs to its yield), calls the route,     *)
(* and resumes the generator, whose finally block closes the session.      *)
(* The lookup and the commit of crud.update_user / crud.delete_user are    *)
(* separate steps, so requests of different workers interleave there.      *)
(***************************************************************************)
EXTENDS Integers, FiniteSets, Sequences, TLC

\* Bounds of the model.
MaxRequests == 3      \* requests received in one run
MaxUsers == 2         \* users created in one run; ids 1..MaxUsers in paths
NumWorkers == 2       \* requests in flight at the same time

Workers == 1..NumWorkers
PathIds == 1..MaxUsers

\* Request bodies (schemas.UserCreate / schemas.UserUpdate: name, email, age).
UserBodies ==
    { [name |-> "Ana", email |-> "a@x.com", age |-> 30],
      [name |-> "Bob", email |-> "b@x.com", age |-> 31] }

None == [none |-> TRUE]
NoBody == [none |-> TRUE]
NoRequest == [kind |-> "NONE", user_id |-> 0, user |-> NoBody]

Requests ==
    [kind : {"POST"}, user_id : {0}, user : UserBodies]
        \cup [kind : {"GET", "DELETE"}, user_id : PathIds, user : {NoBody}]
        \cup [kind : {"PUT"}, user_id : PathIds, user : UserBodies]

VARIABLES
    started,         \* the application has started
    tables_created,  \* create_tables() has been run by the application
    store,           \* the users table: id -> [id, name, email, age]
    next_id,         \* the store's identifier counter
    pc,              \* per worker: "idle", "route", "commit", "exit"
    req,             \* per worker: the request being handled
    db,              \* per worker: the session get_db yielded (0: none)
    db_user,         \* per worker: the ORM object the crud call holds
    resp,            \* per worker: the response of the route
    acquired,        \* number of SessionLocal() calls
    released,        \* number of db.close() calls
    open,            \* the sessions that are open
    closes,          \* per session: number of close() calls on it
    received,        \* number of requests received
    id_log,          \* history: the creations and deletions, in commit order
    last_commit      \* history: per id, the request that committed last

vars == <<started, tables_created, store, next_id, pc, req, db, db_user, resp,
          acquired, released, open, closes, received, id_log, last_commit>>

storeVars == <<store, next_id, id_log, last_commit>>
sessionVars == <<acquired, released, open, closes>>
appVars == <<started, tables_created>>

----------------------------------------------------------------------------
\* Responses.

Response(status, body) == [status |-> status, body |-> body]

HTTPException(status_code, detail) ==
    [status |-> status_code, body |-> [detail |-> detail]]

ServerError == HTTPException(500, "Internal Server Error")

InFlight(r) == pc[r] # "idle"

----------------------------------------------------------------------------
\* Application start.

\* Base.metadata.create_all(bind=engine): afterwards the tables exist.
create_tables(created) == TRUE

\* on_startup() calls create_tables().
on_startup(created) == create_tables(created)

\* main.py registers no startup handler: the decorator and on_startup are
\* commented out.
on_startup_registered == FALSE

\* The application starts: app = FastAPI(), then the registered startup
\* handlers run.
Startup ==
    /\ ~started
    /\ started' = TRUE
    /\ tables_created' = IF on_startup_registered
                         THEN on_startup(tables_created)
                         ELSE tables_created
    /\ UNCHANGED <<storeVars, sessionVars, pc, req, db, db_user, resp, received>>

----------------------------------------------------------------------------
\* The session factory and the get_db dependency.

\* A mutant: one session object handed to every caller.
SessionLocal_shared(n) == 1

\* SessionLocal(): a new session object on every call.
SessionLocal(n) == n + 1

\* get_db up to its yield.
get_db_enter(r) ==
    LET s == SessionLocal(acquired) IN
    /\ db' = [db EXCEPT ![r] = s]
    /\ acquired' = acquired + 1
    /\ open' = open \cup {s}
    /\ closes' = IF s \in DOMAIN closes THEN closes ELSE closes @@ (s :> 0)
    /\ UNCHANGED released

\* The request is over: the worker is free again.
Finish(r) ==
    /\ pc' = [pc EXCEPT ![r] = "idle"]
    /\ req' = [req EXCEPT ![r] = NoRequest]
    /\ db' = [db EXCEPT ![r] = 0]
    /\ db_user' = [db_user EXCEPT ![r] = None]
    /\ resp' = [resp EXCEPT ![r] = None]

\* db.close()
Close(s) ==
    /\ open' = open \ {s}
    /\ closes' = [closes EXCEPT ![s] = @ + 1]
    /\ released' = released + 1
    /\ UNCHANGED acquired

\* A mutant: close() after the yield, without try/finally; an exception
\* thrown into the generator skips it.
get_db_exit_no_finally(r) ==
    /\ pc[r] = "exit"
    /\ IF resp[r].status = 200 THEN Close(db[r]) ELSE UNCHANGED sessionVars
    /\ Finish(r)
    /\ UNCHANGED <<appVars, storeVars, received>>

\* get_db after its yield: the finally block, on every exit of the route.
get_db_exit(r) ==
    /\ pc[r] = "exit"
    /\ Close(db[r])
    /\ Finish(r)
    /\ UNCHANGED <<appVars, storeVars, received>>

\* Creates received and not yet committed.
PendingCreates ==
    Cardinality({w \in Workers : pc[w] = "route" /\ req[w].kind = "POST"})

\* A request arrives at the first free worker; FastAPI resolves
\* Depends(get_db).
Receive(r) ==
    /\ started
    /\ pc[r] = "idle"
    /\ \A w \in Workers : w < r => pc[w] # "idle"
    /\ received < MaxRequests
    /\ \E q \in Requests :
          /\ q.kind = "POST" => next_id + PendingCreates <= MaxUsers
          /\ req' = [req EXCEPT ![r] = q]
    /\ received' = received + 1
    /\ get_db_enter(r)
    /\ pc' = [pc EXCEPT ![r] = "route"]
    /\ UNCHANGED <<appVars, storeVars, db_user, resp>>

----------------------------------------------------------------------------
\* Entity operations (crud.py), on the store.

\* ReadByID: the record with this identifier, or absence.
get_user_by_id(st, user_id) ==
    IF user_id \in DOMAIN st THEN st[user_id] ELSE None

MaxId(st) ==
    IF DOMAIN st = {} THEN 0
    ELSE CHOOSE k \in DOMAIN st : \A j \in DOMAIN st : j <= k

\* A mutant: the largest identifier in the table plus one, so the identifier
\* of a deleted last row is handed out again.
AssignId_max_plus_one(st, n) == MaxId(st) + 1

\* The store assigns the identifier on creation and never reassigns one.
AssignId(st, n) == n

NewUser(id, name, email, age) ==
    [id |-> id, name |-> name, email |-> email, age |-> age]

\* Update overwrites all three mutable fields of the record it looked up.
Assign(u, name, email, age) ==
    [u EXCEPT !.name = name, !.email = email, !.age = age]

\* The commit of a created record: a new row under its identifier.
InsertRow(st, u) == (u.id :> u) @@ st

\* The row a staged change is written to is still there.
RowExists(st, u) == u.id \in DOMAIN st

\* The commit of an updated record: the row takes the record's fields.
WriteRow(st, u) == [st EXCEPT ![u.id] = u]

\* The commit of a deletion: the row is gone, permanently.
Remove(st, user_id) == [k \in DOMAIN st \ {user_id} |-> st[k]]

\* The whole of Update on a store, lookup to commit, without interleaving.
crud_update_user(st, user_id, name, email, age) ==
    IF user_id \in DOMAIN st
    THEN WriteRow(st, Assign(st[user_id], name, email, age))
    ELSE st

Committed(kind, user) == [kind |-> kind, user |-> user]

Logged(op, id) == [op |-> op, id |-> id]

----------------------------------------------------------------------------
\* The routes of main.py.

ToExit(r) ==
    /\ pc' = [pc EXCEPT ![r] = "exit"]
    /\ db_user' = [db_user EXCEPT ![r] = None]

\* A mutant: status_code=201 given to the decorator.
create_user_status_created == 200 + 1

\* @app.post("/users/", response_model=schemas.UserOut): no status_code is
\* given, so the route answers with the framework's default.
create_user_status == 200

\* A mutant: name and email passed in each other's place.
create_user_args_swapped(user) == <<user.email, user.name, user.age>>

\* crud.create_user(db, user.name, user.email, user.age)
create_user_args(user) == <<user.name, user.email, user.age>>

create_user(r) ==
    /\ pc[r] = "route"
    /\ req[r].kind = "POST"
    /\ LET a == create_user_args(req[r].user)
           id == AssignId(store, next_id)
           u == NewUser(id, a[1], a[2], a[3])
       IN  /\ store' = InsertRow(store, u)
           /\ next_id' = next_id + 1
           /\ id_log' = Append(id_log, Logged("create", id))
           /\ last_commit' = (id :> Committed("POST", req[r].user)) @@ last_commit
           /\ resp' = [resp EXCEPT ![r] = Response(create_user_status, u)]
    /\ ToExit(r)
    /\ UNCHANGED <<appVars, sessionVars, req, db, received>>

\* A mutant: absence returned as a body instead of raised.
read_user_result_no_raise(u) == Response(200, u)

\* if not db_user: raise HTTPException(404, "User not found"); return db_user
read_user_result(u) ==
    IF u = None THEN HTTPException(404, "User not found") ELSE Response(200, u)

\* A mutant: the route calls the delete operation (a copied route body).
read_user_deleting(r) ==
    /\ pc[r] = "route"
    /\ req[r].kind = "GET"
    /\ LET u == get_user_by_id(store, req[r].user_id)
       IN  /\ resp' = [resp EXCEPT ![r] = read_user_result(u)]
           /\ store' = Remove(store, req[r].user_id)
    /\ ToExit(r)
    /\ UNCHANGED <<appVars, sessionVars, next_id, id_log, last_commit,
                   req, db, received>>

read_user(r) ==
    /\ pc[r] = "route"
    /\ req[r].kind = "GET"
    /\ LET u == get_user_by_id(store, req[r].user_id)
       IN  resp' = [resp EXCEPT ![r] = read_user_result(u)]
    /\ ToExit(r)
    /\ UNCHANGED <<appVars, sessionVars, storeVars, req, db, received>>

\* A mutant: email and name passed in each other's place.
update_user_args_swapped(user_id, user) ==
    <<user_id, user.email, user.name, user.age>>

\* crud.update_user(db, user_id, user.name, user.email, user.age)
update_user_args(user_id, user) == <<user_id, user.name, user.email, user.age>>

update_user_result(u) ==
    IF u = None THEN HTTPException(404, "User not found") ELSE Response(200, u)

\* update_user_route, up to the lookup of crud.update_user: absent, the
\* operation returns None and the route raises; present, the three fields
\* are assigned on the loaded object.
update_user_lookup(r) ==
    /\ pc[r] = "route"
    /\ req[r].kind = "PUT"
    /\ LET a == update_user_args(req[r].user_id, req[r].user)
           u == get_user_by_id(store, a[1])
       IN  IF u = None
           THEN /\ resp' = [resp EXCEPT ![r] = update_user_result(None)]
                /\ ToExit(r)
           ELSE /\ db_user' = [db_user EXCEPT ![r] = Assign(u, a[2], a[3], a[4])]
                /\ pc' = [pc EXCEPT ![r] = "commit"]
                /\ UNCHANGED resp
    /\ UNCHANGED <<appVars, sessionVars, storeVars, req, db, received>>

\* update_user_route, the commit of crud.update_user and the return. The
\* row may have been deleted since the lookup: the write then matches no row
\* and the commit fails.
update_user_commit(r) ==
    /\ pc[r] = "commit"
    /\ req[r].kind = "PUT"
    /\ LET u == db_user[r]
       IN  IF RowExists(store, u)
           THEN /\ store' = WriteRow(store, u)
                /\ last_commit' = (u.id :> Committed("PUT", req[r].user)) @@ last_commit
                /\ resp' = [resp EXCEPT ![r] = update_user_result(u)]
           ELSE /\ resp' = [resp EXCEPT ![r] = ServerError]
                /\ UNCHANGED <<store, last_commit>>
    /\ ToExit(r)
    /\ UNCHANGED <<appVars, sessionVars, next_id, id_log, req, db, received>>

delete_user_result(u) ==
    IF u = None THEN HTTPException(404, "User not found") ELSE Response(200, u)

\* delete_user_route, up to the lookup of crud.delete_user.
delete_user_lookup(r) ==
    /\ pc[r] = "route"
    /\ req[r].kind = "DELETE"
    /\ LET u == get_user_by_id(store, req[r].user_id)
       IN  IF u = None
           THEN /\ resp' = [resp EXCEPT ![r] = delete_user_result(None)]
                /\ ToExit(r)
           ELSE /\ db_user' = [db_user EXCEPT ![r] = u]
                /\ pc' = [pc EXCEPT ![r] = "commit"]
                /\ UNCHANGED resp
    /\ UNCHANGED <<appVars, sessionVars, storeVars, req, db, received>>

\* delete_user_route, the commit of crud.delete_user and the return of the
\* record as it was looked up.
delete_user_commit(r) ==
    /\ pc[r] = "commit"
    /\ req[r].kind = "DELETE"
    /\ LET u == db_user[r]
       IN  /\ store' = Remove(store, u.id)
           /\ last_commit' = (u.id :> Committed("DELETE", NoBody)) @@ last_commit
           /\ id_log' = IF RowExists(store, u)
                         THEN Append(id_log, Logged("delete", u.id))
                         ELSE id_log
           /\ resp' = [resp EXCEPT ![r] = delete_user_result(u)]
    /\ ToExit(r)
    /\ UNCHANGED <<appVars, sessionVars, next_id, req, db, received>>

\* A commit fails (the store is unavailable): the fault propagates through
\* the route as a server error.
StoreFault(r) ==
    /\ \/ pc[r] = "commit"
       \/ pc[r] = "route" /\ req[r].kind = "POST"
    /\ resp' = [resp EXCEPT ![r] = ServerError]
    /\ ToExit(r)
    /\ UNCHANGED <<appVars, sessionVars, storeVars, req, db, received>>

----------------------------------------------------------------------------

\* The process has been loaded and has not started serving; the users table
\* is empty.
Init ==
    /\ started = FALSE
    /\ tables_created = FALSE
    /\ store = <<>>
    /\ next_id = 1
    /\ pc = [r \in Workers |-> "idle"]
    /\ req = [r \in Workers |-> NoRequest]
    /\ db = [r \in Workers |-> 0]
    /\ db_user = [r \in Workers |-> None]
    /\ resp = [r \in Workers |-> None]
    /\ acquired = 0
    /\ released = 0
    /\ open = {}
    /\ closes = <<>>
    /\ received = 0
    /\ id_log = <<>>
    /\ last_commit = <<>>

Next ==
    \/ Startup
    \/ \E r \in Workers : Receive(r)
    \/ \E r \in Workers : create_user(r)
    \/ \E r \in Workers : read_user(r)
    \/ \E r \in Workers : update_user_lookup(r)
    \/ \E r \in Workers : update_user_commit(r)
    \/ \E r \in Workers : delete_user_lookup(r)
    \/ \E r \in Workers : delete_user_commit(r)
    \/ \E r \in Workers : StoreFault(r)
    \/ \E r \in Workers : get_db_exit(r)

Spec == Init /\ [][Next]_vars

----------------------------------------------------------------------------
\* Properties.

AllIdle == \A r \in Workers : pc[r] = "idle"

NotFound == HTTPException(404, "User not found")

UserOf(id, user) == NewUser(id, user.name, user.email, user.age)

Created(id) ==
    \E i \in DOMAIN id_log : id_log[i] = Logged("create", id)

Deleted(id) ==
    id \in DOMAIN last_commit /\ last_commit[id].kind = "DELETE"

\* C1: every session get_db acquires is released exactly once, on every exit
\* path of the request (return, 404, failure inside the operation): no session
\* is closed twice, a session not yet closed belongs to a request still in
\* flight, and once all requests have finished the number of acquisitions
\* equals the number of releases.
C1_ReleasedExactlyOnce ==
    /\ \A s \in DOMAIN closes :
          /\ closes[s] <= 1
          /\ closes[s] = 0 => \E r \in Workers : InFlight(r) /\ db[r] = s
    /\ AllIdle => acquired = released

\* At least three requests have been handled to their end, among them the
\* creation and the deletion of a user, and every session acquired for them
\* has been released.
C1_Witness ==
    /\ AllIdle
    /\ acquired >= 3
    /\ released = acquired
    /\ \E id \in PathIds : Deleted(id)

\* C2: for an id never created or already deleted, GET, PUT and DELETE answer
\* 404 with detail "User not found"; and right after a successful Delete(id),
\* ReadByID(id) finds nothing.
C2_AbsentIdIsNotFound ==
    [][\A r \in Workers :
          /\ ( /\ read_user(r) \/ update_user_lookup(r) \/ delete_user_lookup(r)
               /\ ~Created(req[r].user_id) \/ Deleted(req[r].user_id) )
             => (pc'[r] = "exit" /\ resp'[r] = NotFound)
          /\ (delete_user_commit(r) /\ resp'[r].status = 200)
             => read_user_result(get_user_by_id(store', req[r].user_id)) = NotFound
      ]_vars

\* A GET of a deleted id has been answered 404 while the request that deleted
\* it still holds its 200.
C2_Witness ==
    \E r1, r2 \in Workers :
        /\ pc[r1] = "exit" /\ req[r1].kind = "DELETE" /\ resp[r1].status = 200
        /\ pc[r2] = "exit" /\ req[r2].kind = "GET"
        /\ req[r2].user_id = req[r1].user_id
        /\ resp[r2] = NotFound

\* C3: Create followed by ReadByID with the returned id yields a record whose
\* name, email and age are the inputs and whose id is the returned one, an
\* integer that is not null.
C3_CreateThenRead ==
    [][\A r \in Workers :
          create_user(r) =>
             LET out == resp'[r].body
                 want == UserOf(out.id, req[r].user)
             IN  /\ out.id \in Nat \ {0}
                 /\ get_user_by_id(store', out.id) = want
                 /\ read_user_result(get_user_by_id(store', out.id))
                        = Response(200, want)
      ]_vars

\* A Create has answered and a GET with the returned id has answered the
\* same record.
C3_Witness ==
    \E r1, r2 \in Workers :
        /\ pc[r1] = "exit" /\ req[r1].kind = "POST" /\ resp[r1].status = 200
        /\ pc[r2] = "exit" /\ req[r2].kind = "GET"
        /\ req[r2].user_id = resp[r1].body.id
        /\ resp[r2] = Response(200, UserOf(req[r2].user_id, req[r1].user))

\* C4: Update(id, n, e, a) of an existing id followed by ReadByID(id) yields
\* exactly (n, e, a) under the same id, and the same Update applied again
\* leaves the store as the first application left it.
C4_UpdateFullReplaceIdempotent ==
    [][\A r \in Workers :
          (update_user_commit(r) /\ req[r].user_id \in DOMAIN store) =>
             LET id == req[r].user_id
                 want == UserOf(id, req[r].user)
                 a == update_user_args(id, req[r].user)
             IN  /\ resp'[r] = Response(200, want)
                 /\ read_user_result(get_user_by_id(store', id)) = Response(200, want)
                 /\ crud_update_user(store', a[1], a[2], a[3], a[4]) = store'
                 /\ DOMAIN store' = DOMAIN store
                 /\ \A k \in DOMAIN store \ {id} : store'[k] = store[k]
      ]_vars

\* An Update that changed the record has answered 200 and the store holds
\* its three fields.
C4_Witness ==
    \E r \in Workers :
        /\ pc[r] = "exit" /\ req[r].kind = "PUT" /\ resp[r].status = 200
        /\ req[r].user_id \in DOMAIN store
        /\ store[req[r].user_id] = UserOf(req[r].user_id, req[r].user)
        /\ \E i \in DOMAIN id_log : id_log[i] = Logged("create", req[r].user_id)
        /\ \E w \in Workers :
              /\ pc[w] = "exit" /\ req[w].kind = "POST" /\ resp[w].status = 200
              /\ resp[w].body.id = req[r].user_id
              /\ req[w].user # req[r].user

C7_TablesCreatedAtStartup ==
    (started \/ received > 0) => tables_created

\* C8: every open session belongs to exactly one request in flight, no two
\* requests in flight use the same session, and no session stays open after
\* its request has finished.
C8_SessionPerRequest ==
    /\ \A s \in open :
          Cardinality({r \in Workers : InFlight(r) /\ db[r] = s}) = 1
    /\ \A r1, r2 \in Workers :
          (r1 # r2 /\ InFlight(r1) /\ InFlight(r2)) => db[r1] # db[r2]

\* Two requests are in flight, each with its own open session, after an
\* earlier request has finished and its session was closed.
C8_Witness ==
    \E r1, r2 \in Workers :
        /\ r1 # r2
        /\ InFlight(r1) /\ InFlight(r2)
        /\ db[r1] \in open /\ db[r2] \in open
        /\ released >= 1
        /\ Cardinality(open) = 2

C10_NoMutationWithoutCommit ==
    [][\A r \in Workers :
          ( \/ read_user(r)
            \/ update_user_lookup(r) /\ req[r].user_id \notin DOMAIN store
            \/ delete_user_lookup(r) /\ req[r].user_id \notin DOMAIN store
            \/ Receive(r)
            \/ get_db_exit(r) )
          => (store' = store /\ next_id' = next_id)
      ]_vars

\* A GET that found its record has answered, and the record is still stored;
\* a PUT of an absent id has answered 404.
C10_Witness ==
    \E r1, r2 \in Workers :
        /\ pc[r1] = "exit" /\ req[r1].kind = "GET" /\ resp[r1].status = 200
        /\ req[r1].user_id \in DOMAIN store
        /\ store[req[r1].user_id] = resp[r1].body
        /\ pc[r2] = "exit" /\ req[r2].kind = "PUT" /\ resp[r2] = NotFound

====
